---- MODULE Spec2Model ----
(***************************************************************************)
(* A model of lib/event/reactor.c: the per-core reactor loop, the event     *)
(* queue and event pool, the poller ring, the register / unregister /       *)
(* migrate protocol and the init / start / stop lifecycle.                  *)
(***************************************************************************)
EXTENDS Integers, Sequences, FiniteSets, TLC

(* ---------------------------------------------------------------------- *)
(* Program constants                                                        *)
(* ---------------------------------------------------------------------- *)
SPDK_REACTOR_STATE_INVALID == 0
SPDK_REACTOR_STATE_INITIALIZED == 1
SPDK_REACTOR_STATE_RUNNING == 2
SPDK_REACTOR_STATE_EXITING == 3
SPDK_REACTOR_STATE_SHUTDOWN == 4

\* size of g_reactors[] (scaled down); lcores are 0 .. RTE_MAX_LCORE - 1
RTE_MAX_LCORE == 3
\* rte_get_master_lcore()
MasterLcore == 0
\* rte_ring_create sizes (scaled down); a ring of size n holds n - 1 entries
SPDK_POLLER_RING_SIZE == 8
EventRingSize == 16

(* ---------------------------------------------------------------------- *)
(* Bounds of the model                                                      *)
(* ---------------------------------------------------------------------- *)
\* number of event records of g_spdk_event_mempool
PoolSize == 8
\* number of struct spdk_poller objects the application owns
NumPollers == 2
\* calls of spdk_poller_register / _unregister / _migrate
MaxCalls == 2
\* events each producer passes to spdk_event_call
MaxPosts == 2
\* number of producers of plain events
NumProducers == 2
\* calls of spdk_reactors_init / _start / _stop
MaxLife == 4
\* longest poller ring the removal loop is run on
MaxRing == 4
\* iterations of a reactor loop whose poller calls are recorded
MaxIter == 4
\* pollers registered before the reactors start
NumRound == 3

Lcores == 0 .. (RTE_MAX_LCORE - 1)
\* lcores the host (rte_lcore_is_enabled) reports as enabled
EnabledLcores == {0, 1}
SlaveLcores == EnabledLcores \ {MasterLcore}
Pollers == 1 .. NumPollers
EventIds == 1 .. PoolSize
Producers == 1 .. NumProducers
NULL == 0

VARIABLES
  g_reactor_state,     \* enum spdk_reactor_state
  g_reactor_mask,      \* uint64_t bitmap
  g_reactor_count,     \* int
  g_spdk_event_mempool,\* TRUE once rte_mempool_create has succeeded
  event,               \* the records of the pool: EventIds -> struct spdk_event
  events,              \* g_reactors[c].events: sequence of event ids (NULL ring: see constructed)
  active_pollers,      \* g_reactors[c].active_pollers: sequence of pollers
  constructed,         \* g_reactors[c].events != NULL
  poller_lcore,        \* poller->lcore
  lcore_state,         \* rte_eal_get_lcore_state(c): "WAIT", "RUNNING", "FINISHED"
  pc,                  \* position of the worker of core c inside _spdk_reactor_run
  count,               \* the local count of spdk_event_queue_run on core c
  cur_poller,          \* the local poller of _spdk_reactor_run between dequeue and enqueue
  main_pc,             \* position of the master thread: "app", "launch", "master", "wait"
  unreg,               \* the spdk_poller_unregister call in progress (between its two reads)
  aborted,             \* the process has died (RTE_VERIFY, exit, NULL dereference)
  \* history variables (not program state)
  ncalls, nlife, nposted, ops, done, log, touched,
  plog,                \* per core: the poller called in each of its first MaxIter iterations
  sampled              \* per core: the events in the queue when the current drain pass
                       \* sampled its length that the pass has not run yet

vars == << g_reactor_state, g_reactor_mask, g_reactor_count, g_spdk_event_mempool,
           event, events, active_pollers, constructed, poller_lcore, lcore_state,
           pc, count, cur_poller, main_pc, unreg, aborted,
           ncalls, nlife, nposted, ops, done, log, touched, plog,
           sampled >>

lifeVars == << g_reactor_state, g_reactor_mask, g_reactor_count, g_spdk_event_mempool,
               constructed, lcore_state, main_pc, nlife >>
\* the program's state: everything but the history
progVars == << g_reactor_state, g_reactor_mask, g_reactor_count, g_spdk_event_mempool,
               event, events, active_pollers, constructed, poller_lcore, lcore_state,
               pc, count, cur_poller, main_pc, unreg, aborted >>
histVars == << ncalls, nposted, ops, done, log, touched, plog, sampled >>

(* ---------------------------------------------------------------------- *)
(* Bit operations on the 64-bit masks (only the low RTE_MAX_LCORE bits      *)
(* are ever set by the inputs enumerated here)                              *)
(* ---------------------------------------------------------------------- *)
RECURSIVE Pow2(_)
Pow2(n) == IF n = 0 THEN 1 ELSE 2 * Pow2(n - 1)

\* (mask & (1ULL << i)) != 0
BitSet(mask, i) == (mask \div Pow2(i)) % 2 = 1

\* mask | (1ULL << i)
SetBit(mask, i) == IF BitSet(mask, i) THEN mask ELSE mask + Pow2(i)

\* mask & ~(1ULL << i)
ClearBit(mask, i) == IF BitSet(mask, i) THEN mask - Pow2(i) ELSE mask

(* ---------------------------------------------------------------------- *)
(* Event records and the pool                                               *)
(* ---------------------------------------------------------------------- *)
FreeEvent == [lcore |-> NULL, fn |-> "free", arg1 |-> NULL, arg2 |-> NULL, next |-> NULL]

\* the records currently inside g_spdk_event_mempool
PoolFree == {i \in EventIds : event[i].fn = "free"}

\* rte_mempool_get: which record comes out is immaterial; take the lowest
MinOf(S) == CHOOSE i \in S : \A j \in S : i <= j

\* spdk_event_allocate: the pool after taking record id and filling it in
spdk_event_allocate(ev, id, lcore, fn, arg1, arg2, next) ==
  [ev EXCEPT ![id] = [lcore |-> lcore, fn |-> fn, arg1 |-> arg1, arg2 |-> arg2, next |-> next]]

\* spdk_event_free: rte_mempool_put
spdk_event_free(ev, id) == [ev EXCEPT ![id] = FreeEvent]

\* rte_ring_enqueue on an event ring succeeds
EventRingHasRoom(q, lcore) == Len(q[lcore]) < EventRingSize - 1

\* (mutant) the event is put at the head of the ring
spdk_event_call_AtHead(q, ev, id) == [q EXCEPT ![ev[id].lcore] = << id >> \o @]

\* spdk_event_call: rte_ring_enqueue(reactor->events, event) at the tail
spdk_event_call(q, ev, id) == [q EXCEPT ![ev[id].lcore] = Append(@, id)]

\* (mutant) the chained event is never posted
CallNext_Dropped(q, ev, next) == q

\* spdk_event_call(next) guarded by `if (next)`
CallNext(q, ev, next) == IF next # NULL THEN spdk_event_call(q, ev, next) ELSE q

\* RTE_VERIFY(reactor->events != NULL) and RTE_VERIFY(rc == 0) of spdk_event_call pass
CallOk(q, lcore) == constructed[lcore] /\ EventRingHasRoom(q, lcore)

(* ---------------------------------------------------------------------- *)
(* Core mask parsing                                                        *)
(* ---------------------------------------------------------------------- *)
\* the mask argument is a string: a sequence of characters; NullStr is the NULL pointer
NullStr == << "NULL" >>
HexChars == {"0", "1", "2", "3", "4", "6", "7"}
HexVal(ch) == CASE ch = "0" -> 0 [] ch = "1" -> 1 [] ch = "2" -> 2 [] ch = "3" -> 3
                [] ch = "4" -> 4 [] ch = "6" -> 6 [] ch = "7" -> 7 [] OTHER -> 0

\* strtoull(mask, &end, 16): value of the longest prefix of hex digits, and the rest
RECURSIVE Strtoull(_, _)
Strtoull(str, acc) ==
  IF str # << >> /\ Head(str) \in HexChars
  THEN Strtoull(Tail(str), acc * 16 + HexVal(Head(str)))
  ELSE [value |-> acc, end |-> str]

\* the loop of spdk_app_parse_core_mask clearing the bits of disabled lcores
RECURSIVE ClearDisabled(_, _)
ClearDisabled(mask, i) ==
  IF i >= RTE_MAX_LCORE THEN mask
  ELSE ClearDisabled(IF BitSet(mask, i) /\ i \notin EnabledLcores
                     THEN ClearBit(mask, i) ELSE mask, i + 1)

\* spdk_app_parse_core_mask(mask, &cpumask) with mask != NULL: the return value
\* and what *cpumask holds afterwards
spdk_app_parse_core_mask(mask) ==
  LET r == Strtoull(mask, 0) IN
  IF r.end # << >> THEN [ret |-> -1, cpumask |-> r.value]
  ELSE [ret |-> 0, cpumask |-> ClearDisabled(r.value, 0)]

\* RTE_LCORE_FOREACH(i) g_reactor_mask |= (1ULL << i)
RECURSIVE AllEnabledMask(_, _)
AllEnabledMask(mask, i) ==
  IF i >= RTE_MAX_LCORE THEN mask
  ELSE AllEnabledMask(IF i \in EnabledLcores THEN SetBit(mask, i) ELSE mask, i + 1)

\* (mutant) the mask is parsed whatever the state is
spdk_reactor_parse_mask_NoStateCheck(mask) ==
  IF mask = NullStr
  THEN [ret |-> 0, mask |-> AllEnabledMask(0, 0)]
  ELSE LET r == spdk_app_parse_core_mask(mask) IN
       IF r.ret # 0 THEN [ret |-> r.ret, mask |-> r.cpumask]
       ELSE IF ~BitSet(r.cpumask, MasterLcore) THEN [ret |-> -1, mask |-> r.cpumask]
       ELSE [ret |-> 0, mask |-> r.cpumask]

\* (mutant) the parsed mask is accepted without the test of the master core's bit
spdk_reactor_parse_mask_NoMasterCheck(mask) ==
  IF g_reactor_state >= SPDK_REACTOR_STATE_INITIALIZED
  THEN [ret |-> -1, mask |-> g_reactor_mask]
  ELSE IF mask = NullStr
  THEN [ret |-> 0, mask |-> AllEnabledMask(0, 0)]
  ELSE LET r == spdk_app_parse_core_mask(mask) IN [ret |-> r.ret, mask |-> r.cpumask]

\* spdk_reactor_parse_mask(mask): the return value and g_reactor_mask afterwards
spdk_reactor_parse_mask(mask) ==
  IF g_reactor_state >= SPDK_REACTOR_STATE_INITIALIZED
  THEN [ret |-> -1, mask |-> g_reactor_mask]
  ELSE IF mask = NullStr
  THEN [ret |-> 0, mask |-> AllEnabledMask(0, 0)]
  ELSE LET r == spdk_app_parse_core_mask(mask) IN
       IF r.ret # 0 THEN [ret |-> r.ret, mask |-> r.cpumask]
       ELSE IF ~BitSet(r.cpumask, MasterLcore) THEN [ret |-> -1, mask |-> r.cpumask]
       ELSE [ret |-> 0, mask |-> r.cpumask]

\* the lcores spdk_reactors_init / spdk_reactors_start visit for a mask
MaskLcores(mask) == {i \in EnabledLcores : BitSet(mask, i)}

MaskInputs == {NullStr, << "1" >>, << "3" >>, << "2" >>, << "7" >>, << "1", "Z" >>,
               << "4" >>, << "6" >>}

(* ---------------------------------------------------------------------- *)
(* Lifecycle                                                                *)
(* ---------------------------------------------------------------------- *)
Alive == ~aborted

\* the value spdk_reactors_init(mask) returns when it returns
spdk_reactors_init_rc(mask, poolOk) ==
  LET r == spdk_reactor_parse_mask(mask) IN
  IF r.ret < 0 THEN r.ret ELSE IF ~poolOk THEN -1 ELSE r.ret

\* spdk_reactors_init(mask); poolOk: rte_mempool_create returned a pool. Nothing in the
\* function ties it to a thread or a moment: any thread may call it at any time
spdk_reactors_init(mask, poolOk) ==
  /\ Alive /\ nlife < MaxLife
  /\ nlife' = nlife + 1
  /\ LET r == spdk_reactor_parse_mask(mask)
         cores == MaskLcores(r.mask)
     IN /\ g_reactor_mask' = r.mask
        /\ IF r.ret < 0
           THEN UNCHANGED << g_reactor_state, g_reactor_count, g_spdk_event_mempool,
                             constructed, aborted, event >>
           ELSE IF \E c \in cores : constructed[c]
           THEN \* rte_ring_create of an existing name fails: RTE_VERIFY(reactor->events != NULL)
                /\ aborted' = TRUE
                /\ UNCHANGED << g_reactor_state, g_reactor_count, g_spdk_event_mempool,
                                constructed, event >>
           ELSE /\ constructed' = [c \in Lcores |-> constructed[c] \/ c \in cores]
                /\ g_reactor_count' = g_reactor_count + Cardinality(cores)
                /\ g_spdk_event_mempool' = poolOk
                /\ event' = [i \in EventIds |-> FreeEvent]
                /\ g_reactor_state' = IF poolOk THEN SPDK_REACTOR_STATE_INITIALIZED
                                      ELSE g_reactor_state
                /\ UNCHANGED aborted
  /\ UNCHANGED << events, active_pollers, poller_lcore, lcore_state, pc, count,
                  cur_poller, main_pc, unreg, histVars >>

\* spdk_reactor_start(reactor) for a slave lcore: the lcore state afterwards
SlaveLaunch(st) == CASE st = "FINISHED" -> "RUNNING"
                     [] st = "WAIT" -> "RUNNING"
                     [] OTHER -> st

\* spdk_reactors_start() up to the master's entry into its own loop
spdk_reactors_start ==
  /\ Alive /\ main_pc = "app" /\ nlife < MaxLife
  /\ nlife' = nlife + 1
  /\ g_reactor_state' = SPDK_REACTOR_STATE_RUNNING
  /\ LET slaves == {i \in SlaveLcores : BitSet(g_reactor_mask, i)}
         started == {i \in slaves : lcore_state[i] # "RUNNING"} \cup {MasterLcore}
     IN IF \E c \in started : ~constructed[c]
        THEN \* _spdk_reactor_run dereferences the NULL rings of a reactor never constructed
             /\ aborted' = TRUE
             /\ UNCHANGED << lcore_state, pc, main_pc >>
        ELSE /\ lcore_state' = [c \in Lcores |->
                                  IF c \in slaves THEN SlaveLaunch(lcore_state[c])
                                  ELSE lcore_state[c]]
             /\ pc' = [c \in Lcores |-> IF c \in started THEN "drain" ELSE pc[c]]
             /\ main_pc' = "master"
             /\ UNCHANGED aborted
  /\ UNCHANGED << g_reactor_mask, g_reactor_count, g_spdk_event_mempool, event, events,
                  active_pollers, constructed, poller_lcore, count, cur_poller, unreg,
                  histVars >>

\* (mutant) spdk_reactors_start does not wait for the slave lcores
ReactorsJoin_MasterOnly ==
  /\ Alive /\ main_pc = "master" /\ pc[MasterLcore] = "none"
  /\ lcore_state' = lcore_state
  /\ g_reactor_state' = SPDK_REACTOR_STATE_SHUTDOWN
  /\ main_pc' = "app"
  /\ UNCHANGED << g_reactor_mask, g_reactor_count, g_spdk_event_mempool, event, events,
                  active_pollers, constructed, poller_lcore, pc, count, cur_poller,
                  unreg, aborted, nlife, histVars >>

\* rte_eal_mp_wait_lcore() and the last assignment of spdk_reactors_start
ReactorsJoin ==
  /\ Alive /\ main_pc = "master" /\ pc[MasterLcore] = "none"
  /\ \A c \in SlaveLcores : lcore_state[c] # "RUNNING"
  /\ lcore_state' = [c \in Lcores |-> "WAIT"]
  /\ g_reactor_state' = SPDK_REACTOR_STATE_SHUTDOWN
  /\ main_pc' = "app"
  /\ UNCHANGED << g_reactor_mask, g_reactor_count, g_spdk_event_mempool, event, events,
                  active_pollers, constructed, poller_lcore, pc, count, cur_poller,
                  unreg, aborted, nlife, histVars >>

\* (mutant) a second stop moves the state on to SHUTDOWN
spdk_reactors_stop_Advance ==
  /\ Alive /\ nlife < MaxLife
  /\ nlife' = nlife + 1
  /\ g_reactor_state' = IF g_reactor_state = SPDK_REACTOR_STATE_EXITING
                        THEN SPDK_REACTOR_STATE_SHUTDOWN ELSE SPDK_REACTOR_STATE_EXITING
  /\ UNCHANGED << g_reactor_mask, g_reactor_count, g_spdk_event_mempool, event, events,
                  active_pollers, constructed, poller_lcore, lcore_state, pc, count,
                  cur_poller, main_pc, unreg, aborted, histVars >>

\* spdk_reactors_stop(): callable from any thread at any time
spdk_reactors_stop ==
  /\ Alive /\ nlife < MaxLife
  /\ nlife' = nlife + 1
  /\ g_reactor_state' = SPDK_REACTOR_STATE_EXITING
  /\ UNCHANGED << g_reactor_mask, g_reactor_count, g_spdk_event_mempool, event, events,
                  active_pollers, constructed, poller_lcore, lcore_state, pc, count,
                  cur_poller, main_pc, unreg, aborted, histVars >>

(* ---------------------------------------------------------------------- *)
(* Poller rings                                                             *)
(* ---------------------------------------------------------------------- *)
RECURSIVE CountIn(_, _)
CountIn(ring, p) ==
  IF ring = << >> THEN 0
  ELSE (IF Head(ring) = p THEN 1 ELSE 0) + CountIn(Tail(ring), p)

\* rte_ring_enqueue(reactor->active_pollers, poller) can succeed
PollerRingHasRoom(ring) == Len(ring) < SPDK_POLLER_RING_SIZE - 1

\* (mutant) the poller is put at the head of the ring
PollerEnqueue_AtHead(ring, p) == IF PollerRingHasRoom(ring) THEN << p >> \o ring ELSE ring

\* rte_ring_enqueue on a poller ring: at the tail, or nothing when the ring is full
PollerEnqueue(ring, p) == IF PollerRingHasRoom(ring) THEN Append(ring, p) ELSE ring

\* (mutant) every poller taken from the ring is put back, the target too
RECURSIVE RemoveLoop_KeepsTarget(_, _, _)
RemoveLoop_KeepsTarget(ring, poller, i) ==
  IF i < Len(ring)
  THEN RemoveLoop_KeepsTarget(Append(Tail(ring), Head(ring)), poller, i + 1)
  ELSE ring

\* (mutant) the loop makes one iteration fewer than the ring has entries
RECURSIVE RemoveLoop_OneShort(_, _, _)
RemoveLoop_OneShort(ring, poller, i) ==
  IF i + 1 < Len(ring)
  THEN LET tmp == Head(ring) IN
       IF tmp # poller
       THEN RemoveLoop_OneShort(Append(Tail(ring), tmp), poller, i + 1)
       ELSE RemoveLoop_OneShort(Tail(ring), poller, i + 1)
  ELSE ring

\* the for loop of _spdk_event_remove_poller, from iteration i on:
\* `i < rte_ring_count(...)` is evaluated again before every iteration
RECURSIVE RemoveLoop(_, _, _)
RemoveLoop(ring, poller, i) ==
  IF i < Len(ring)
  THEN LET tmp == Head(ring) IN
       IF tmp # poller
       THEN RemoveLoop(Append(Tail(ring), tmp), poller, i + 1)
       ELSE RemoveLoop(Tail(ring), poller, i + 1)
  ELSE ring

(* ---------------------------------------------------------------------- *)
(* Event callbacks: c is rte_lcore_id() of the worker running the event,    *)
(* id the event, q the event rings after the event was dequeued             *)
(* ---------------------------------------------------------------------- *)
\* spdk_poller_register(poller, lcore, complete): the pool and rings afterwards
spdk_poller_register(ev, q, poller, lcore, complete) ==
  LET id == MinOf({i \in EventIds : ev[i].fn = "free"})
      ev1 == spdk_event_allocate(ev, id, lcore, "add_poller", lcore, poller, complete)
  IN [event |-> ev1, events |-> spdk_event_call(q, ev1, id)]

\* spdk_event_allocate and spdk_event_call of spdk_poller_register do not abort
RegisterOk(ev, q, lcore) ==
  /\ {i \in EventIds : ev[i].fn = "free"} # {}
  /\ CallOk(q, lcore)

NextOk(q, next) == next = NULL \/ CallOk(q, event[next].lcore)

_spdk_event_add_poller(c, id, q) ==
  LET reactor == event[id].arg1
      poller == event[id].arg2
      next == event[id].next
  IN /\ poller_lcore' = [poller_lcore EXCEPT ![poller] = reactor]
     /\ active_pollers' = [active_pollers EXCEPT ![reactor] = PollerEnqueue(@, poller)]
     /\ touched' = IF PollerRingHasRoom(active_pollers[reactor])
                   THEN touched \cup {<< reactor, c >>} ELSE touched
     /\ events' = CallNext(q, event, next)
     /\ event' = spdk_event_free(event, id)
     /\ aborted' = ~NextOk(q, next)
     /\ UNCHANGED << done, log >>

_spdk_event_remove_poller(c, id, q) ==
  LET reactor == event[id].arg1
      poller == event[id].arg2
      next == event[id].next
  IN /\ active_pollers' = [active_pollers EXCEPT ![reactor] = RemoveLoop(@, poller, 0)]
     /\ touched' = IF active_pollers[reactor] # << >>
                   THEN touched \cup {<< reactor, c >>} ELSE touched
     /\ events' = CallNext(q, event, next)
     /\ event' = spdk_event_free(event, id)
     /\ aborted' = (~constructed[reactor] \/ ~NextOk(q, next))
     /\ UNCHANGED << poller_lcore, done, log >>

_spdk_poller_migrate(c, id, q) ==
  LET poller == event[id].arg1
      next == event[id].next
  IN IF RegisterOk(event, q, c)
     THEN LET r == spdk_poller_register(event, q, poller, c, next) IN
          /\ events' = r.events
          /\ event' = spdk_event_free(r.event, id)
          /\ UNCHANGED << active_pollers, poller_lcore, aborted, done, log, touched >>
     ELSE /\ aborted' = TRUE
          /\ events' = q
          /\ UNCHANGED << event, active_pollers, poller_lcore, done, log, touched >>

\* an application callback: a completion (arg1 = NULL, arg2 = number of the call it
\* completes) or a plain event of producer arg1 (arg2 = its number); it only records
\* that it ran
UserCallback(c, id, q) ==
  /\ IF event[id].arg1 = NULL
     THEN done' = done \cup {event[id].arg2} /\ UNCHANGED log
     ELSE log' = [log EXCEPT ![c] = Append(@, << event[id].arg1, event[id].arg2 >>)]
          /\ UNCHANGED done
  /\ events' = q
  /\ event' = spdk_event_free(event, id)
  /\ UNCHANGED << active_pollers, poller_lcore, aborted, touched >>

\* event->fn(event); spdk_event_free(event);
EventFn(c, id, q) ==
  CASE event[id].fn = "add_poller" -> _spdk_event_add_poller(c, id, q)
    [] event[id].fn = "remove_poller" -> _spdk_event_remove_poller(c, id, q)
    [] event[id].fn = "migrate" -> _spdk_poller_migrate(c, id, q)
    [] OTHER -> UserCallback(c, id, q)

(* ---------------------------------------------------------------------- *)
(* The reactor loop of core c (_spdk_reactor_run)                           *)
(* ---------------------------------------------------------------------- *)
\* (mutant) the count is one whenever the ring holds anything
spdk_event_queue_count_One(lcore) ==
  IF constructed[lcore] /\ events[lcore] # << >> THEN 1 ELSE 0

\* spdk_event_queue_count(lcore)
spdk_event_queue_count(lcore) == IF constructed[lcore] THEN Len(events[lcore]) ELSE 0

\* spdk_event_queue_run_all: the length is sampled once
spdk_event_queue_run_all(c) ==
  /\ Alive /\ pc[c] = "drain"
  /\ count' = [count EXCEPT ![c] = spdk_event_queue_count(c)]
  /\ pc' = [pc EXCEPT ![c] = IF spdk_event_queue_count(c) > 0 THEN "run" ELSE "timer"]
  /\ sampled' = [sampled EXCEPT ![c] = events[c]]
  /\ UNCHANGED << lifeVars, event, events, active_pollers, poller_lcore, cur_poller,
                  unreg, aborted, ncalls, nposted, ops, done, log, touched, plog >>

\* one iteration of `while (count--)`: spdk_event_queue_run_single
spdk_event_queue_run_single(c) ==
  /\ Alive /\ pc[c] = "run"
  /\ count' = [count EXCEPT ![c] = @ - 1]
  /\ pc' = [pc EXCEPT ![c] = IF count[c] > 1 THEN "run" ELSE "timer"]
  /\ IF events[c] = << >>
     THEN UNCHANGED << event, events, active_pollers, poller_lcore, aborted,
                       done, log, touched >>
     ELSE EventFn(c, Head(events[c]), [events EXCEPT ![c] = Tail(@)])
  /\ sampled' = [sampled EXCEPT ![c] = IF @ = << >> THEN @ ELSE Tail(@)]
  /\ UNCHANGED << lifeVars, cur_poller, unreg, ncalls, nposted, ops, plog >>

\* (mutant) after the timers the loop goes back to the events
TimerManage_BackToDrain(c) ==
  /\ Alive /\ pc[c] = "timer"
  /\ pc' = [pc EXCEPT ![c] = "drain"]
  /\ UNCHANGED << lifeVars, event, events, active_pollers, poller_lcore, count,
                  cur_poller, unreg, aborted, histVars >>

\* rte_timer_manage()
TimerManage(c) ==
  /\ Alive /\ pc[c] = "timer"
  /\ pc' = [pc EXCEPT ![c] = "poll"]
  /\ UNCHANGED << lifeVars, event, events, active_pollers, poller_lcore, count,
                  cur_poller, unreg, aborted, histVars >>

\* the record of poller calls after one more iteration of core c: p is the poller
\* called in it, NULL if the ring was empty
Record(pl, c, p) == IF Len(pl[c]) < MaxIter THEN [pl EXCEPT ![c] = Append(@, p)] ELSE pl

\* rte_ring_dequeue(reactor->active_pollers, &poller) and the call of poller->fn
PollerDequeue(c) ==
  /\ Alive /\ pc[c] = "poll"
  /\ IF active_pollers[c] # << >>
     THEN /\ cur_poller' = [cur_poller EXCEPT ![c] = Head(active_pollers[c])]
          /\ active_pollers' = [active_pollers EXCEPT ![c] = Tail(@)]
          /\ touched' = touched \cup {<< c, c >>}
          /\ pc' = [pc EXCEPT ![c] = "fn"]
     ELSE /\ pc' = [pc EXCEPT ![c] = "check"]
          /\ UNCHANGED << cur_poller, active_pollers, touched >>
  /\ plog' = Record(plog, c, IF active_pollers[c] # << >> THEN Head(active_pollers[c])
                              ELSE NULL)
  /\ UNCHANGED << lifeVars, event, events, poller_lcore, count, unreg, aborted,
                  ncalls, nposted, ops, done, log, sampled >>

\* poller->fn returns; rte_ring_enqueue(reactor->active_pollers, poller), exit on failure
PollerEnqueueBack(c) ==
  /\ Alive /\ pc[c] = "fn"
  /\ active_pollers' = [active_pollers EXCEPT ![c] = PollerEnqueue(@, cur_poller[c])]
  /\ aborted' = ~PollerRingHasRoom(active_pollers[c])
  /\ cur_poller' = [cur_poller EXCEPT ![c] = NULL]
  /\ touched' = touched \cup {<< c, c >>}
  /\ pc' = [pc EXCEPT ![c] = "check"]
  /\ UNCHANGED << lifeVars, event, events, poller_lcore, count, unreg,
                  ncalls, nposted, ops, done, log, plog, sampled >>

\* (mutant) the loop is left only once the state is SHUTDOWN
LoopExits_OnShutdown(state) == state = SPDK_REACTOR_STATE_SHUTDOWN

\* if (g_reactor_state != SPDK_REACTOR_STATE_RUNNING) break;
LoopExits(state) == state # SPDK_REACTOR_STATE_RUNNING

StateCheck(c) ==
  /\ Alive /\ pc[c] = "check"
  /\ IF LoopExits(g_reactor_state)
     THEN /\ pc' = [pc EXCEPT ![c] = "none"]
          /\ lcore_state' = [lcore_state EXCEPT ![c] =
                               IF c = MasterLcore THEN @ ELSE "FINISHED"]
     ELSE /\ pc' = [pc EXCEPT ![c] = "drain"]
          /\ UNCHANGED lcore_state
  /\ UNCHANGED << g_reactor_state, g_reactor_mask, g_reactor_count, g_spdk_event_mempool,
                  constructed, main_pc, nlife, event, events, active_pollers,
                  poller_lcore, count, cur_poller, unreg, aborted, histVars >>

Worker(c) ==
  \/ spdk_event_queue_run_all(c)
  \/ spdk_event_queue_run_single(c)
  \/ TimerManage(c)
  \/ PollerDequeue(c)
  \/ PollerEnqueueBack(c)
  \/ StateCheck(c)

(* ---------------------------------------------------------------------- *)
(* Calls of the API made by application threads                             *)
(* ---------------------------------------------------------------------- *)
\* a record that is already complete: nothing more is recorded
NoRecord == [c \in Lcores |-> [i \in 1 .. MaxIter |-> NULL]]

NoUnreg == [poller |-> NULL, reactor |-> NULL, complete |-> NULL]

\* how often poller p is in the rotation of core c: in its ring, or taken from the
\* ring by the worker of c for the duration of its callback
Occ(c, p) == CountIn(active_pollers[c], p) + (IF cur_poller[c] = p THEN 1 ELSE 0)

\* some event of the pool concerns poller p
InFlight(p) ==
  \/ \E i \in EventIds :
       \/ event[i].fn \in {"add_poller", "remove_poller"} /\ event[i].arg2 = p
       \/ event[i].fn = "migrate" /\ event[i].arg1 = p
  \/ unreg.poller = p

\* p is registered on core c and no operation on it is pending
Settled(p, c) ==
  /\ ~InFlight(p)
  /\ poller_lcore[p] = c
  /\ Occ(c, p) = 1
  /\ \A d \in Lcores \ {c} : Occ(d, p) = 0

\* no event is allocated and no call is in progress
Quiescent == PoolFree = EventIds /\ unreg = NoUnreg

OpRecord(kind, p, lcore, comp) ==
  [kind |-> kind, poller |-> p, lcore |-> lcore, comp |-> comp,
   settled |-> Settled(p, poller_lcore[p]),
   absent |-> (~InFlight(p) /\ \A c \in Lcores : Occ(c, p) = 0),
   quiet |-> Quiescent,
   from |-> poller_lcore[p],
   held |-> [x \in Pollers |-> IF lcore \in Lcores THEN Occ(lcore, x) ELSE 0]]

\* the completion event the caller allocates for call number n, for core cl
\* (cl = -1: no completion): the pool afterwards and the event (NULL if none)
Completion(ev, cl, n) ==
  IF cl = -1 THEN [event |-> ev, id |-> NULL]
  ELSE LET id == MinOf({i \in EventIds : ev[i].fn = "free"}) IN
       [event |-> spdk_event_allocate(ev, id, cl, "user", NULL, n, NULL), id |-> id]

\* the cores the application allocates its completion events for (-1: no completion)
CompletionCores == {-1} \cup {c \in {MasterLcore} : constructed[c]}
Need(cl) == IF cl = -1 THEN 1 ELSE 2

ApiGuard == Alive /\ g_spdk_event_mempool /\ ncalls < MaxCalls

\* spdk_poller_register(poller, lcore, complete) called by the application
Register(p, lcore, cl) ==
  /\ ApiGuard
  /\ Cardinality(PoolFree) >= Need(cl)
  /\ CallOk(events, lcore)
  /\ LET cm == Completion(event, cl, ncalls + 1)
         r == spdk_poller_register(cm.event, events, p, lcore, cm.id)
     IN /\ event' = r.event
        /\ events' = r.events
  /\ ncalls' = ncalls + 1
  /\ ops' = Append(ops, OpRecord("reg", p, lcore, cl # -1))
  /\ UNCHANGED << lifeVars, active_pollers, poller_lcore, pc, count, cur_poller, unreg,
                  aborted, nposted, done, log, touched, plog, sampled >>

\* spdk_poller_unregister(poller, complete) up to and including line 546:
\* reactor = spdk_reactor_get(poller->lcore)
UnregisterBegin(p, cl) ==
  /\ ApiGuard /\ unreg = NoUnreg
  /\ Cardinality(PoolFree) >= Need(cl)
  /\ LET cm == Completion(event, cl, ncalls + 1) IN
       /\ event' = cm.event
       /\ unreg' = [poller |-> p, reactor |-> poller_lcore[p], complete |-> cm.id]
  /\ ncalls' = ncalls + 1
  /\ ops' = Append(ops, OpRecord("unreg", p, -1, cl # -1))
  /\ UNCHANGED << lifeVars, events, active_pollers, poller_lcore, pc, count, cur_poller,
                  aborted, nposted, done, log, touched, plog, sampled >>

\* spdk_poller_migrate(poller, new_lcore, complete) up to and including line 546 of
\* the spdk_poller_unregister it calls
MigrateBegin(p, new_lcore, cl) ==
  /\ ApiGuard /\ unreg = NoUnreg
  /\ BitSet(g_reactor_mask, new_lcore)
  /\ Cardinality(PoolFree) >= Need(cl) + 1
  /\ LET cm == Completion(event, cl, ncalls + 1)
         id == MinOf({i \in EventIds : cm.event[i].fn = "free"})
     IN /\ event' = spdk_event_allocate(cm.event, id, new_lcore, "migrate", p, NULL, cm.id)
        /\ unreg' = [poller |-> p, reactor |-> poller_lcore[p], complete |-> id]
  /\ ncalls' = ncalls + 1
  /\ ops' = Append(ops, OpRecord("mig", p, new_lcore, cl # -1))
  /\ UNCHANGED << lifeVars, events, active_pollers, poller_lcore, pc, count, cur_poller,
                  aborted, nposted, done, log, touched, plog, sampled >>

\* (mutant) the remove-poller event always goes to the master core
UnregisterEventLcore_Master(p) == MasterLcore

\* the core the event of spdk_poller_unregister is allocated for: poller->lcore as
\* read on line 547
UnregisterEventLcore(p) == poller_lcore[p]

\* spdk_poller_unregister from line 547 on: spdk_event_allocate(poller->lcore, ...) reads
\* poller->lcore a second time, then spdk_event_call
UnregisterEnd ==
  /\ Alive /\ unreg # NoUnreg
  /\ LET lcore == UnregisterEventLcore(unreg.poller)
         id == MinOf(PoolFree)
         ev1 == spdk_event_allocate(event, id, lcore, "remove_poller", unreg.reactor,
                                    unreg.poller, unreg.complete)
     IN IF PoolFree # {} /\ CallOk(events, lcore)
        THEN /\ event' = ev1
             /\ events' = spdk_event_call(events, ev1, id)
             /\ UNCHANGED aborted
        ELSE /\ aborted' = TRUE
             /\ UNCHANGED << event, events >>
  /\ unreg' = NoUnreg
  /\ UNCHANGED << lifeVars, active_pollers, poller_lcore, pc, count, cur_poller,
                  histVars >>

\* producer prod: spdk_event_allocate(lcore, fn, ...) and spdk_event_call
PostEvent(prod, lcore) ==
  /\ Alive /\ g_spdk_event_mempool
  /\ Len(nposted[prod]) < MaxPosts
  /\ PoolFree # {}
  /\ CallOk(events, lcore)
  /\ LET id == MinOf(PoolFree)
         ev1 == spdk_event_allocate(event, id, lcore, "user", prod,
                                    Len(nposted[prod]) + 1, NULL)
     IN /\ event' = ev1
        /\ events' = spdk_event_call(events, ev1, id)
  /\ nposted' = [nposted EXCEPT ![prod] = Append(@, lcore)]
  /\ UNCHANGED << lifeVars, active_pollers, poller_lcore, pc, count, cur_poller, unreg,
                  aborted, ncalls, ops, done, log, touched, plog, sampled >>

(* ---------------------------------------------------------------------- *)
(* The specification                                                        *)
(* ---------------------------------------------------------------------- *)
Init ==
  /\ g_reactor_state = SPDK_REACTOR_STATE_INVALID
  /\ g_reactor_mask = 0
  /\ g_reactor_count = 0
  /\ g_spdk_event_mempool = FALSE
  /\ event = [i \in EventIds |-> FreeEvent]
  /\ events = [c \in Lcores |-> << >>]
  /\ active_pollers = [c \in Lcores |-> << >>]
  /\ constructed = [c \in Lcores |-> FALSE]
  /\ poller_lcore = [p \in Pollers |-> 0]
  /\ lcore_state = [c \in Lcores |-> "WAIT"]
  /\ pc = [c \in Lcores |-> "none"]
  /\ count = [c \in Lcores |-> 0]
  /\ cur_poller = [c \in Lcores |-> NULL]
  /\ main_pc = "app"
  /\ unreg = NoUnreg
  /\ aborted = FALSE
  /\ ncalls = 0
  /\ nlife = 0
  /\ nposted = [p \in Producers |-> << >>]
  /\ ops = << >>
  /\ done = {}
  /\ log = [c \in Lcores |-> << >>]
  /\ touched = {}
  /\ plog = NoRecord
  /\ sampled = [c \in Lcores |-> << >>]

\* the application's lifecycle calls: its main thread calls spdk_reactors_init and
\* spdk_reactors_start, any thread spdk_reactors_stop
Lifecycle ==
  \/ spdk_reactors_stop
  \/ \E mask \in MaskInputs, poolOk \in BOOLEAN :
       main_pc = "app" /\ spdk_reactors_init(mask, poolOk)
  \/ spdk_reactors_start
  \/ ReactorsJoin

Workers == \E c \in EnabledLcores : Worker(c)

Posts == \E prod \in Producers, lcore \in Lcores : PostEvent(prod, lcore)

\* the pollers the application's calls are about; the others stay registered where
\* they are
SubjectPollers == {1}

PollerCalls ==
  \/ \E p \in SubjectPollers, lcore \in Lcores, cl \in CompletionCores :
       Register(p, lcore, cl)
  \/ \E p \in SubjectPollers, cl \in CompletionCores : UnregisterBegin(p, cl)
  \/ \E p \in SubjectPollers, lcore \in Lcores, cl \in CompletionCores :
       MigrateBegin(p, lcore, cl)
  \/ UnregisterEnd

\* registrations without a completion event
Registers == \E p \in SubjectPollers, lcore \in Lcores : Register(p, lcore, -1)

\* plain events of the first producer
MainPosts == \E prod \in {1}, lcore \in Lcores : PostEvent(prod, lcore)

\* the lifecycle, the reactor loops, plain events and registrations, from process start
Next == Lifecycle \/ Workers \/ MainPosts \/ Registers

Spec == Init /\ [][Next]_vars

\* every launched worker thread keeps being scheduled
FairSpec == Spec /\ \A c \in EnabledLcores : WF_vars(Worker(c))

\* the pollers of reg whose lcore is c, in the order they were registered
RECURSIVE InitRing(_, _, _)
InitRing(reg, lc, c) ==
  IF reg = {} THEN << >>
  ELSE LET p == MinOf(reg) IN
       (IF lc[p] = c THEN << p >> ELSE << >>) \o InitRing(reg \ {p}, lc, c)

\* the state after spdk_reactors_init(NULL) has succeeded, spdk_reactors_start() has
\* launched the workers and the application has registered some of its pollers (all
\* but the subject pollers, and possibly those) and waited for the registrations
InitRunning ==
  /\ g_reactor_state = SPDK_REACTOR_STATE_RUNNING
  /\ g_reactor_mask = AllEnabledMask(0, 0)
  /\ g_reactor_count = Cardinality(EnabledLcores)
  /\ g_spdk_event_mempool = TRUE
  /\ event = [i \in EventIds |-> FreeEvent]
  /\ events = [c \in Lcores |-> << >>]
  /\ poller_lcore \in [Pollers -> EnabledLcores]
  /\ \E reg \in {r \in SUBSET Pollers : Pollers \ SubjectPollers \subseteq r} :
       active_pollers = [c \in Lcores |-> InitRing(reg, poller_lcore, c)]
  /\ constructed = [c \in Lcores |-> c \in EnabledLcores]
  /\ lcore_state = [c \in Lcores |-> IF c \in SlaveLcores THEN "RUNNING" ELSE "WAIT"]
  /\ pc = [c \in Lcores |-> IF c \in EnabledLcores THEN "drain" ELSE "none"]
  /\ count = [c \in Lcores |-> 0]
  /\ cur_poller = [c \in Lcores |-> NULL]
  /\ main_pc = "master"
  /\ unreg = NoUnreg
  /\ aborted = FALSE
  /\ ncalls = 0
  /\ nlife = 2
  /\ nposted = [p \in Producers |-> << >>]
  /\ ops = << >>
  /\ done = {}
  /\ log = [c \in Lcores |-> << >>]
  /\ touched = {}
  /\ plog = NoRecord
  /\ sampled = [c \in Lcores |-> << >>]

\* the poller protocol on running reactors
NextPollers == PollerCalls \/ Workers

PollerSpec == InitRunning /\ [][NextPollers]_vars

\* plain events of all producers on running reactors
NextEvents == Posts \/ Workers

EventSpec == InitRunning /\ [][NextEvents]_vars

(* ---------------------------------------------------------------------- *)
(* The removal loop on its own: a running master reactor whose ring holds   *)
(* up to MaxRing distinct pollers, with the remove-poller event of one      *)
(* spdk_poller_unregister(target, complete) call in its event queue         *)
(* ---------------------------------------------------------------------- *)
RingPollers == 1 .. MaxRing

\* the sequences of distinct pollers of length at most n
RECURSIVE DistinctSeqs(_)
DistinctSeqs(n) ==
  IF n = 0 THEN {<< >>}
  ELSE LET shorter == DistinctSeqs(n - 1) IN
       shorter \cup {Append(r, x) : r \in {q \in shorter : Len(q) = n - 1},
                                    x \in RingPollers}

NoRepeat(r) == \A i, j \in 1 .. Len(r) : i # j => r[i] # r[j]

InitRemove ==
  /\ g_reactor_state = SPDK_REACTOR_STATE_RUNNING
  /\ g_reactor_mask = SetBit(0, MasterLcore)
  /\ g_reactor_count = 1
  /\ g_spdk_event_mempool = TRUE
  /\ \E target \in RingPollers, withComplete \in BOOLEAN,
        ring \in {q \in DistinctSeqs(MaxRing) : NoRepeat(q)} :
       /\ active_pollers = [c \in Lcores |-> IF c = MasterLcore THEN ring ELSE << >>]
       /\ ops = << [kind |-> "unreg", poller |-> target, lcore |-> -1,
                    comp |-> withComplete, settled |-> (CountIn(ring, target) = 1),
                    absent |-> (CountIn(ring, target) = 0), quiet |-> TRUE,
                    from |-> MasterLcore, held |-> [x \in Pollers |-> CountIn(ring, x)]] >>
       /\ event = [i \in EventIds |->
                  IF i = 1
                  THEN [lcore |-> MasterLcore, fn |-> "remove_poller",
                        arg1 |-> MasterLcore, arg2 |-> target,
                        next |-> IF withComplete THEN 2 ELSE NULL]
                  ELSE IF i = 2 /\ withComplete
                  THEN [lcore |-> MasterLcore, fn |-> "user", arg1 |-> NULL,
                        arg2 |-> 1, next |-> NULL]
                  ELSE FreeEvent]
  /\ events = [c \in Lcores |-> IF c = MasterLcore THEN << 1 >> ELSE << >>]
  /\ constructed = [c \in Lcores |-> c = MasterLcore]
  /\ poller_lcore = [p \in Pollers |-> MasterLcore]
  /\ lcore_state = [c \in Lcores |-> "WAIT"]
  /\ pc = [c \in Lcores |-> IF c = MasterLcore THEN "drain" ELSE "none"]
  /\ count = [c \in Lcores |-> 0]
  /\ cur_poller = [c \in Lcores |-> NULL]
  /\ main_pc = "master"
  /\ unreg = NoUnreg
  /\ aborted = FALSE
  /\ ncalls = 1
  /\ nlife = 2
  /\ nposted = [p \in Producers |-> << >>]
  /\ done = {}
  /\ log = [c \in Lcores |-> << >>]
  /\ touched = {}
  /\ plog = NoRecord
  /\ sampled = [c \in Lcores |-> << >>]

NextRemove == \E c \in {MasterLcore} : Worker(c)

RemoveSpec == InitRemove /\ [][NextRemove]_vars

(* ---------------------------------------------------------------------- *)
(* Registration on a ring that is nearly or entirely full: the running      *)
(* reactors, with the ring of the master core holding other pollers up to   *)
(* its capacity of SPDK_POLLER_RING_SIZE - 1                                *)
(* ---------------------------------------------------------------------- *)
\* the pollers of other subsystems: registered before, never the subject of a call
FillerRing(n) == [i \in 1 .. n |-> NumPollers + i]

\* how many slots of the master's ring are free at the start
FreeSlots == {0, 1, 2}

InitFull ==
  /\ g_reactor_state = SPDK_REACTOR_STATE_RUNNING
  /\ g_reactor_mask = AllEnabledMask(0, 0)
  /\ g_reactor_count = Cardinality(EnabledLcores)
  /\ g_spdk_event_mempool = TRUE
  /\ event = [i \in EventIds |-> FreeEvent]
  /\ events = [c \in Lcores |-> << >>]
  /\ poller_lcore = [p \in Pollers |-> MasterLcore]
  /\ \E free \in FreeSlots :
       active_pollers = [c \in Lcores |->
                           IF c = MasterLcore
                           THEN FillerRing(SPDK_POLLER_RING_SIZE - 1 - free)
                           ELSE << >>]
  /\ constructed = [c \in Lcores |-> c \in EnabledLcores]
  /\ lcore_state = [c \in Lcores |-> IF c \in SlaveLcores THEN "RUNNING" ELSE "WAIT"]
  /\ pc = [c \in Lcores |-> IF c \in EnabledLcores THEN "drain" ELSE "none"]
  /\ count = [c \in Lcores |-> 0]
  /\ cur_poller = [c \in Lcores |-> NULL]
  /\ main_pc = "master"
  /\ unreg = NoUnreg
  /\ aborted = FALSE
  /\ ncalls = 0
  /\ nlife = 2
  /\ nposted = [p \in Producers |-> << >>]
  /\ ops = << >>
  /\ done = {}
  /\ log = [c \in Lcores |-> << >>]
  /\ touched = {}
  /\ plog = NoRecord
  /\ sampled = [c \in Lcores |-> << >>]

\* registrations of pollers that are in no ring, with or without a completion event
FullRegisters ==
  \E p \in Pollers, lcore \in EnabledLcores, cl \in CompletionCores :
    /\ \A k \in 1 .. Len(ops) : ops[k].poller # p
    /\ Register(p, lcore, cl)

NextFull == FullRegisters \/ Workers

FullSpec == InitFull /\ [][NextFull]_vars

(* ---------------------------------------------------------------------- *)
(* Start-up with pollers registered beforehand: spdk_reactors_init(NULL)    *)
(* has succeeded and the application has called spdk_poller_register for    *)
(* some pollers, one after the other, before it calls spdk_reactors_start() *)
(* ---------------------------------------------------------------------- *)
RoundPollers == 1 .. NumRound

\* the orders in which the application registers some of these pollers
RoundOrders ==
  {r \in DistinctSeqs(NumRound) : NoRepeat(r) /\ \A i \in 1 .. Len(r) : r[i] \in RoundPollers}

\* the add-poller events of registrations i, i + 1, ... of order r that went to core c
\* (registration i uses record i of the pool)
RECURSIVE RoundQueue(_, _, _, _)
RoundQueue(r, lc, c, i) ==
  IF i > Len(r) THEN << >>
  ELSE (IF lc[r[i]] = c THEN << i >> ELSE << >>) \o RoundQueue(r, lc, c, i + 1)

InitRound ==
  /\ g_reactor_state = SPDK_REACTOR_STATE_INITIALIZED
  /\ g_reactor_mask = AllEnabledMask(0, 0)
  /\ g_reactor_count = Cardinality(EnabledLcores)
  /\ g_spdk_event_mempool = TRUE
  /\ \E r \in RoundOrders, lc \in [RoundPollers -> EnabledLcores] :
       /\ event = [i \in EventIds |->
                     IF i <= Len(r)
                     THEN [lcore |-> lc[r[i]], fn |-> "add_poller", arg1 |-> lc[r[i]],
                           arg2 |-> r[i], next |-> NULL]
                     ELSE FreeEvent]
       /\ events = [c \in Lcores |-> RoundQueue(r, lc, c, 1)]
       /\ ops = [i \in 1 .. Len(r) |->
                   [kind |-> "reg", poller |-> r[i], lcore |-> lc[r[i]], comp |-> FALSE,
                    settled |-> FALSE, absent |-> TRUE, quiet |-> (i = 1),
                    from |-> MasterLcore, held |-> [x \in Pollers |-> 0]]]
       /\ ncalls = Len(r)
  /\ active_pollers = [c \in Lcores |-> << >>]
  /\ constructed = [c \in Lcores |-> c \in EnabledLcores]
  /\ poller_lcore = [p \in RoundPollers |-> MasterLcore]
  /\ lcore_state = [c \in Lcores |-> "WAIT"]
  /\ pc = [c \in Lcores |-> "none"]
  /\ count = [c \in Lcores |-> 0]
  /\ cur_poller = [c \in Lcores |-> NULL]
  /\ main_pc = "app"
  /\ unreg = NoUnreg
  /\ aborted = FALSE
  /\ nlife = 1
  /\ nposted = [p \in Producers |-> << >>]
  /\ done = {}
  /\ log = [c \in Lcores |-> << >>]
  /\ touched = {}
  /\ plog = [c \in Lcores |-> << >>]
  /\ sampled = [c \in Lcores |-> << >>]

NextRound == spdk_reactors_start \/ spdk_reactors_stop \/ ReactorsJoin \/ Workers

RoundSpec == InitRound /\ [][NextRound]_vars

\* the same start-up, with further calls of spdk_reactors_init by any thread at any
\* time
ReinitMasks == {NullStr, << "1" >>, << "2" >>, << "1", "Z" >>}

Reinits == \E mask \in ReinitMasks, poolOk \in BOOLEAN : spdk_reactors_init(mask, poolOk)

NextReinit == Reinits \/ NextRound

ReinitSpec == InitRound /\ [][NextReinit]_vars

(* ---------------------------------------------------------------------- *)
(* Properties                                                               *)
(* ---------------------------------------------------------------------- *)
\* the step is worker c running the event at the head of its queue, whose callback is fn
RunsEvent(c, fn) ==
  /\ pc[c] = "run" /\ events[c] # << >>
  /\ event[Head(events[c])].fn = fn
  /\ count'[c] = count[c] - 1

\* ring without every occurrence of poller p, the others in their order from the head
Without(ring, p) == SelectSeq(ring, LAMBDA x : x # p)

\* C2: whenever _spdk_event_remove_poller runs for a poller that is in the ring, the
\* ring afterwards holds exactly the other pollers, in the order they had from the
\* head before the removal
C2_RemovePreservesOrder ==
  [][\A c \in EnabledLcores :
       RunsEvent(c, "remove_poller") =>
         LET e == event[Head(events[c])] IN
           CountIn(active_pollers[e.arg1], e.arg2) >= 1 =>
             active_pollers'[e.arg1] = Without(active_pollers[e.arg1], e.arg2)]_vars

\* C10: g_reactor_state changes only along INVALID -> INITIALIZED -> RUNNING ->
\* EXITING -> SHUTDOWN, whatever the order of the calls of init, start and stop
AllowedTransitions ==
  { << SPDK_REACTOR_STATE_INVALID, SPDK_REACTOR_STATE_INITIALIZED >>,
    << SPDK_REACTOR_STATE_INITIALIZED, SPDK_REACTOR_STATE_RUNNING >>,
    << SPDK_REACTOR_STATE_RUNNING, SPDK_REACTOR_STATE_EXITING >>,
    << SPDK_REACTOR_STATE_EXITING, SPDK_REACTOR_STATE_SHUTDOWN >> }

C10_StateTransitions ==
  [][g_reactor_state' # g_reactor_state =>
       << g_reactor_state, g_reactor_state' >> \in AllowedTransitions]_vars

\* spdk_reactors_stop() has been called while the reactors were running, and
\* spdk_reactors_start() has not returned yet
StopRequested ==
  /\ g_reactor_state = SPDK_REACTOR_STATE_EXITING
  /\ main_pc = "master"

\* no worker is inside the loop of _spdk_reactor_run
AllExited == \A c \in Lcores : pc[c] = "none"

\* C9: after spdk_reactors_stop() is called while the reactors run, every reactor
\* loop (master and slaves) eventually exits, given fair scheduling of the workers
C9_StopTerminates == StopRequested ~> AllExited

C9_Witness ==
  /\ StopRequested /\ AllExited
  /\ \E c \in SlaveLcores : lcore_state[c] = "FINISHED"
  /\ \E c \in Lcores : log[c] # << >>

\* C3: on every core the events of one producer start in the order the producer
\* passed them to spdk_event_call for that core: an event that has started is
\* preceded in the core's start log by every earlier event of its producer for
\* that core, whatever other producers enqueue
C3_FifoPerProducer ==
  \A c \in Lcores : \A j \in 1 .. Len(log[c]) :
    LET prod == log[c][j][1]
        n2 == log[c][j][2]
    IN \A n1 \in 1 .. (n2 - 1) :
         nposted[prod][n1] = c =>
           \E i \in 1 .. (j - 1) : log[c][i] = << prod, n1 >>

C3_Witness ==
  \E c \in Lcores :
    /\ Len(log[c]) >= 3
    /\ \E i, j, k \in 1 .. Len(log[c]) :
         /\ i < j /\ j < k
         /\ log[c][i][1] = log[c][k][1]
         /\ log[c][j][1] # log[c][i][1]

(* ---------------------------------------------------------------------- *)
(* Properties of the poller protocol                                        *)
(* ---------------------------------------------------------------------- *)
\* in how many queue slots, next fields and pending calls event id is held
\* occurrences of x in the sequences q[c], q[c + 1], ...
RECURSIVE CountAll(_, _, _)
CountAll(q, x, c) ==
  IF c >= RTE_MAX_LCORE THEN 0 ELSE CountIn(q[c], x) + CountAll(q, x, c + 1)

Holders(id) ==
  CountAll(events, id, 0)
    + Cardinality({j \in EventIds : event[j].fn # "free" /\ event[j].next = id})
    + (IF unreg.complete = id THEN 1 ELSE 0)

\* every event handed to spdk_event_call has run
AllEventsRun == (\A c \in Lcores : events[c] = << >>) /\ unreg = NoUnreg

\* event id in some queue is the completion of call number n
IsCompletionOf(id, n) ==
  event[id].fn = "user" /\ event[id].arg1 = NULL /\ event[id].arg2 = n

\* C4: an allocated event is held in exactly one place (one slot of the queue of its
\* target core, the next field of one other event, or the call that is about to post
\* it) and a record of the pool in none; a completion runs at most once; the record
\* goes back to the pool in the step that runs its callback; once every posted event
\* has run, all records are back in the pool
C4_EventOwnership ==
  /\ [](Alive =>
         /\ \A id \in EventIds :
              Holders(id) = (IF event[id].fn = "free" THEN 0 ELSE 1)
         /\ \A c \in Lcores : \A k \in 1 .. Len(events[c]) :
              event[events[c][k]].lcore = c
         /\ (AllEventsRun => PoolFree = EventIds))
  /\ [][\A c \in EnabledLcores :
          (pc[c] = "run" /\ events[c] # << >> /\ count'[c] = count[c] - 1 /\ Alive') =>
            LET id == Head(events[c]) IN
              /\ id \in PoolFree' \/ id \in PoolFree
              /\ \A d \in Lcores : CountIn(events'[d], id) = 0
              /\ (event[id].fn = "user" /\ event[id].arg1 = NULL) =>
                   (event[id].arg2 \notin done /\ event[id].arg2 \in done')]_vars

C4_Witness ==
  /\ AllEventsRun /\ PoolFree = EventIds
  /\ \E n \in done : ops[n].kind = "mig"
  /\ \E n \in done : ops[n].kind = "unreg"

\* call number k is a migrate of a poller that was registered on core ops[k].from
\* with nothing pending, and no later call concerns that poller
MigrateAlone(k) ==
  /\ ops[k].kind = "mig"
  /\ ops[k].settled
  /\ \A j \in (k + 1) .. Len(ops) : ops[j].poller # ops[k].poller

\* the remove-poller event of the pending unregister of p has run
Removed(p) ==
  /\ unreg.poller # p
  /\ \A i \in EventIds : ~(event[i].fn = "remove_poller" /\ event[i].arg2 = p)

\* ... and so has the add-poller event on the new core
Inserted(p) ==
  /\ Removed(p)
  /\ \A i \in EventIds : ~(event[i].fn = "migrate" /\ event[i].arg1 = p)
  /\ \A i \in EventIds : ~(event[i].fn = "add_poller" /\ event[i].arg2 = p)

OnlyOn(p, c) ==
  /\ Occ(c, p) = 1
  /\ \A d \in Lcores \ {c} : Occ(d, p) = 0
  /\ poller_lcore[p] = c

\* C5: for a migrate of poller P from core `from` to core `to`: until the remove-poller
\* event has run P is on `from` only; from then until the add-poller event has run on
\* `to`, P is in no ring; and from the moment the completion is posted, so when its
\* callback runs and afterwards, P.lcore is `to`, the ring of `from` does not hold P
\* and the ring of `to` holds it exactly once
C5_Migration ==
  \A k \in 1 .. Len(ops) :
    (Alive /\ MigrateAlone(k)) =>
      LET p == ops[k].poller
          from == ops[k].from
          to == ops[k].lcore
      IN /\ ~Removed(p) => OnlyOn(p, from)
         /\ (Removed(p) /\ ~Inserted(p)) => \A c \in Lcores : Occ(c, p) = 0
         /\ Inserted(p) => OnlyOn(p, to)
         /\ (\E c \in Lcores : \E i \in 1 .. Len(events[c]) :
               IsCompletionOf(events[c][i], k)) => Inserted(p)
         /\ k \in done => Inserted(p)

C5_Witness ==
  \E k \in 1 .. Len(ops) :
    /\ MigrateAlone(k) /\ ops[k].from = 0 /\ ops[k].lcore = 1
    /\ k \in done
    /\ OnlyOn(ops[k].poller, 1)

\* C1 (in the case the claim names: the application only migrates and unregisters a
\* poller that was registered when the first call was made): the poller is in at most
\* one ring, and at most once in it
C1_AtMostOneRing ==
  \A p \in Pollers :
    ( /\ \A k \in 1 .. Len(ops) : ops[k].poller = p => ops[k].kind # "reg"
      /\ \A k \in 1 .. Len(ops) :
           (ops[k].poller = p /\ \A j \in 1 .. (k - 1) : ops[j].poller # p)
             => ops[k].settled )
    => CountAll(active_pollers, p, 0) <= 1

\* C6: Register(P, N) then Unregister(P), called when nothing is pending and P is in
\* no ring: once every event has run, P is in no ring and the ring of N holds the
\* pollers it held before
C6_RegisterUnregister ==
  \A k \in 1 .. (Len(ops) - 1) :
    ( /\ Alive /\ k + 1 = Len(ops)
      /\ ops[k].kind = "reg" /\ ops[k].quiet /\ ops[k].absent
      /\ ops[k + 1].kind = "unreg" /\ ops[k + 1].poller = ops[k].poller
      /\ Quiescent )
    => /\ \A c \in Lcores : Occ(c, ops[k].poller) = 0
       /\ \A x \in Pollers : Occ(ops[k].lcore, x) = ops[k].held[x]

\* C7: Migrate(P, M) then Migrate(P, N) on a registered poller: once both completions
\* have run, P is in the ring of N exactly once, in no other ring, and P.lcore is N
C7_MigrateTwice ==
  \A k \in 1 .. (Len(ops) - 1) :
    ( /\ Alive /\ k + 1 = Len(ops)
      /\ ops[k].kind = "mig" /\ ops[k].settled
      /\ ops[k + 1].kind = "mig" /\ ops[k + 1].poller = ops[k].poller
      /\ k \in done /\ (k + 1) \in done )
    => OnlyOn(ops[k].poller, ops[k + 1].lcore)

\* C8: the poller ring of core N is enqueued to and dequeued from only by the worker
\* of core N
C8_RingOwner == \A t \in touched : t[1] = t[2]

\* the completion event of call number k is in some event queue
CompletionPosted(k) ==
  \E c \in Lcores : \E i \in 1 .. Len(events[c]) : IsCompletionOf(events[c][i], k)

\* C11: whenever the completion of spdk_poller_register(P, N, C) has been posted, and
\* whenever its callback has run, P is in the rotation of core N (in its ring, or held
\* by the worker of N for the duration of P's callback), whatever the ring's occupancy
C11_CompletionAfterVisible ==
  \A k \in 1 .. Len(ops) :
    (Alive /\ ops[k].kind = "reg" /\ (CompletionPosted(k) \/ k \in done))
      => Occ(ops[k].lcore, ops[k].poller) >= 1

\* the pollers registered on core c by calls k, k + 1, ..., in the order of the calls
RECURSIVE RegisteredOn(_, _)
RegisteredOn(c, k) ==
  IF k > Len(ops) THEN << >>
  ELSE (IF ops[k].kind = "reg" /\ ops[k].lcore = c THEN << ops[k].poller >> ELSE << >>)
         \o RegisteredOn(c, k + 1)

\* C12: with pollers registered on a core in some order before the loop starts and no
\* other call, the n-th iteration of the core's loop calls exactly one poller, the
\* ((n - 1) mod number of pollers + 1)-th registered: the calls are a prefix of the
\* registration order repeated (and a core without pollers calls none)
C12_RoundRobin ==
  \A c \in EnabledLcores :
    LET R == RegisteredOn(c, 1) IN
      \A n \in 1 .. Len(plog[c]) :
        plog[c][n] = IF R = << >> THEN NULL ELSE R[((n - 1) % Len(R)) + 1]

C12_Witness ==
  /\ Len(RegisteredOn(MasterLcore, 1)) = NumRound
  /\ Len(plog[MasterLcore]) > NumRound
  /\ plog[MasterLcore][NumRound + 1] = plog[MasterLcore][1]
  /\ plog[MasterLcore][1] # plog[MasterLcore][2]

\* mask is a hexadecimal string whose value, once the bits of the cores the host has
\* not enabled are cleared, lacks the bit of the master core
LacksMaster(mask) ==
  /\ mask # NullStr
  /\ spdk_app_parse_core_mask(mask).ret = 0
  /\ ~BitSet(spdk_app_parse_core_mask(mask).cpumask, MasterLcore)

\* C13: a call of spdk_reactors_init with a mask that lacks the master core's bit
\* returns an error, constructs no reactor, leaves g_reactor_count as it was and leaves
\* g_reactor_state as it was (INVALID when it was INVALID)
C13_InitWithoutMaster ==
  [][nlife' # nlife =>
     \A mask \in {m \in MaskInputs : LacksMaster(m)}, poolOk \in BOOLEAN :
       spdk_reactors_init(mask, poolOk) =>
         /\ spdk_reactors_init_rc(mask, poolOk) < 0
         /\ constructed' = constructed
         /\ g_reactor_count' = g_reactor_count
         /\ g_reactor_state' = g_reactor_state
         /\ ~aborted']_vars

\* such a call has been made on the fresh process: only it leaves a nonzero mask
\* without the master's bit
C13_Witness ==
  /\ g_reactor_mask # 0 /\ ~BitSet(g_reactor_mask, MasterLcore)
  /\ g_reactor_state = SPDK_REACTOR_STATE_INVALID
  /\ g_reactor_count = 0
  /\ \A c \in Lcores : ~constructed[c]

\* C14: spdk_reactors_stop() leaves g_reactor_state EXITING and everything else as it
\* was, and called in a state that already is EXITING (so after another stop) it
\* changes nothing at all: two calls in a row leave the state one call leaves
C14_StopIdempotent ==
  [][spdk_reactors_stop =>
       /\ g_reactor_state' = SPDK_REACTOR_STATE_EXITING
       /\ UNCHANGED << g_reactor_mask, g_reactor_count, g_spdk_event_mempool, event,
                       events, active_pollers, constructed, poller_lcore, lcore_state,
                       pc, count, cur_poller, main_pc, unreg, aborted >>
       /\ (g_reactor_state = SPDK_REACTOR_STATE_EXITING => UNCHANGED progVars)]_vars

\* the application has called spdk_reactors_stop() twice in a row before starting the
\* reactors: no other pair of lifecycle calls leaves the workers unlaunched
C14_Witness ==
  /\ g_reactor_state = SPDK_REACTOR_STATE_EXITING
  /\ main_pc = "app" /\ nlife = 3
  /\ \A c \in Lcores : pc[c] = "none" /\ plog[c] = << >>
  /\ \E c \in Lcores : events[c] # << >>

\* a is an initial segment of b
IsPrefix(a, b) == Len(a) <= Len(b) /\ SubSeq(b, 1, Len(a)) = a

\* the step is worker c running one event of its drain pass
RunStep(c) == pc[c] = "run" /\ count'[c] = count[c] - 1

\* C15: a drain pass of core c runs the events that were in c's queue when the length
\* was sampled, all of them and in queue order: while the pass lasts, the sampled
\* events it has not run yet are the first count[c] entries of the queue; each step of
\* the pass runs the oldest of them; the pass ends when none is left; and no other
\* step takes anything out of the queue, so events enqueued after the sample (by
\* other threads or by the callbacks of the pass) stay behind the sampled ones and
\* are still queued when the pass ends
C15_DrainPass ==
  /\ [](Alive =>
         \A c \in EnabledLcores :
           IF pc[c] = "run"
           THEN /\ count[c] >= 1 /\ count[c] = Len(sampled[c])
                /\ IsPrefix(sampled[c], events[c])
           ELSE sampled[c] = << >>)
  /\ [][\A c \in EnabledLcores :
          IF RunStep(c)
          THEN /\ events[c] # << >> /\ sampled[c] # << >>
               /\ Head(events[c]) = Head(sampled[c])
               /\ Head(events[c]) \in PoolFree'
               /\ IsPrefix(Tail(events[c]), events'[c])
               /\ (pc'[c] # "run") = (count'[c] = 0)
          ELSE IsPrefix(events[c], events'[c])]_vars

\* a pass of core c has just ended and left in c's queue an add-poller event that a
\* migrate callback of this very pass enqueued (the application made no register call)
C15_Witness ==
  \E c \in EnabledLcores :
    /\ pc[c] = "timer" /\ events[c] # << >>
    /\ event[Head(events[c])].fn = "add_poller"
    /\ ops # << >> /\ \A k \in 1 .. Len(ops) : ops[k].kind = "mig"

\* the order of the positions of one worker: into the loop, the drain pass (sample,
\* then the sampled events one by one), the timers, the poller step (a poller called
\* or the ring found empty), the state check, and from there round again or out
LoopOrder ==
  { << "none", "drain" >>, << "drain", "run" >>, << "drain", "timer" >>,
    << "run", "timer" >>, << "timer", "poll" >>, << "poll", "fn" >>,
    << "poll", "check" >>, << "fn", "check" >>, << "check", "drain" >>,
    << "check", "none" >> }

C17_RemoveAbsent ==
  [][\A c \in EnabledLcores :
       RunsEvent(c, "remove_poller") =>
         LET e == event[Head(events[c])] IN
           CountIn(active_pollers[e.arg1], e.arg2) = 0 =>
             /\ active_pollers' = active_pollers
             /\ ~aborted'
             /\ e.next # NULL =>
                  /\ CountAll(events, e.next, 0) = 0
                  /\ CountAll(events', e.next, 0) = 1
                  /\ events'[event[e.next].lcore] # << >>
                  /\ events'[event[e.next].lcore][Len(events'[event[e.next].lcore])] = e.next
             /\ e.next = NULL => \A d \in Lcores : Len(events'[d]) = Len(events[d]) -
                                                     (IF d = c THEN 1 ELSE 0)]_vars

\* the unregister of a poller that was in no ring has completed: its completion has
\* run, and the ring still holds its pollers
C17_Witness ==
  /\ ops # << >> /\ ops[1].kind = "unreg" /\ ops[1].absent /\ ops[1].comp
  /\ 1 \in done
  /\ Len(active_pollers[MasterLcore]) >= 3

\* C18: a call of spdk_reactors_init in a state other than INVALID returns an error
\* and leaves g_reactor_state, g_reactor_mask, g_reactor_count, the event pool and
\* every reactor's event queue and poller ring as they were; so a call that returns
\* success was made in state INVALID
C18_InitOnlyWhenInvalid ==
  [][nlife' # nlife =>
     \A mask \in ReinitMasks, poolOk \in BOOLEAN :
       spdk_reactors_init(mask, poolOk) =>
         /\ g_reactor_state # SPDK_REACTOR_STATE_INVALID =>
              /\ spdk_reactors_init_rc(mask, poolOk) < 0
              /\ ~aborted'
              /\ UNCHANGED << g_reactor_state, g_reactor_mask, g_reactor_count,
                              g_spdk_event_mempool, constructed, event, events,
                              active_pollers >>
         /\ (spdk_reactors_init_rc(mask, poolOk) = 0 /\ ~aborted') =>
              g_reactor_state = SPDK_REACTOR_STATE_INVALID]_vars

\* spdk_reactors_init has been called again after it succeeded: of the lifecycle
\* calls only it leaves the state INITIALIZED
C18_Witness ==
  /\ g_reactor_state = SPDK_REACTOR_STATE_INITIALIZED
  /\ nlife > 1
  /\ \E c \in Lcores : events[c] # << >>

\* C19: spdk_reactors_start returns only when no worker, master or slave, is inside
\* the loop of _spdk_reactor_run any more, and it returns with g_reactor_state
\* SHUTDOWN; and whenever g_reactor_state is SHUTDOWN no reactor loop is running
C19_StartReturns ==
  /\ [](g_reactor_state = SPDK_REACTOR_STATE_SHUTDOWN => AllExited)
  /\ [][(main_pc = "master" /\ main_pc' = "app") =>
          /\ AllExited
          /\ \A c \in SlaveLcores : lcore_state[c] # "RUNNING"
          /\ g_reactor_state' = SPDK_REACTOR_STATE_SHUTDOWN]_vars

\* spdk_reactors_start has returned after the master and a slave ran their loops
C19_Witness ==
  /\ g_reactor_state = SPDK_REACTOR_STATE_SHUTDOWN
  /\ main_pc = "app"
  /\ \E c \in SlaveLcores : BitSet(g_reactor_mask, c) /\ constructed[c] /\ log[c] # << >>

\* call number k is an unregister of a poller that was registered once, on core
\* ops[k].from, with nothing pending, and no later call concerns that poller
UnregisterAlone(k) ==
  /\ ops[k].kind = "unreg"
  /\ ops[k].settled
  /\ \A j \in (k + 1) .. Len(ops) : ops[j].poller # ops[k].poller

\* the step is a worker taking poller p from its ring and calling it
Invokes(c, p) == pc[c] = "poll" /\ cur_poller'[c] = p /\ p # NULL

\* C20: for an unregister of a poller P that was registered exactly once and is not
\* registered again: once its remove-poller event has run, so from the moment the
\* completion is posted, P is in no ring and held by no worker, and no worker calls
\* it; and a worker only ever calls the poller at the head of its own ring
C20_NoCallAfterUnregister ==
  /\ [](Alive =>
         \A k \in 1 .. Len(ops) :
           UnregisterAlone(k) =>
             /\ Removed(ops[k].poller) => \A c \in Lcores : Occ(c, ops[k].poller) = 0
             /\ (CompletionPosted(k) \/ k \in done) => Removed(ops[k].poller))
  /\ [][\A c \in EnabledLcores : \A p \in Pollers :
          Invokes(c, p) =>
            /\ active_pollers[c] # << >> /\ Head(active_pollers[c]) = p
            /\ \A k \in 1 .. Len(ops) :
                 (UnregisterAlone(k) /\ ops[k].poller = p) => ~Removed(p)]_vars

\* the completion of such an unregister has run, the poller was registered on a slave
\* core, and the workers go on calling the other pollers
C20_Witness ==
  \E k \in 1 .. Len(ops) :
    /\ UnregisterAlone(k) /\ ops[k].comp /\ k \in done
    /\ ops[k].from \in SlaveLcores
    /\ \A c \in Lcores : Occ(c, ops[k].poller) = 0
    /\ \E c \in Lcores : cur_poller[c] # NULL

====
